---- MODULE Spec2Model ----
(***************************************************************************)
(* Model of src/Enplanement.py: a Streamlit script that loads a flight     *)
(* table once (st.cache_data) and, on every script run, renders one of     *)
(* four pages of pandas filter / group-by / aggregate queries.             *)
(*                                                                         *)
(* Modelling notes.                                                        *)
(*  - A script run is LoadData followed by one page action; a user         *)
(*    interaction stores the widget value and starts the next run.         *)
(*  - 'Departure Date' is text in the file, a timestamp after              *)
(*    pd.to_datetime (day * TicksPerDay + time of day) and a calendar      *)
(*    date after .dt.date (timestamp \div TicksPerDay).                    *)
(*  - Numeric cells are integers; mean and standard deviation are kept     *)
(*    exact (as sums and counts), so floating-point rounding is not        *)
(*    modelled.  Cells are never missing (no NaN / NaT in the file).       *)
(*  - Series.sort_values uses numpy's default 'quicksort', which is not    *)
(*    stable: the order of equal sums is a nondeterministic choice.        *)
(***************************************************************************)
EXTENDS Integers, Sequences, FiniteSets, TLC

\* ------------------------------------------------------------- bounds
MaxRows == 2
TicksPerDay == 2
NumStatKeys == 6

\* ---------------------------------------------------- program constants
TopN == 5
OutlierK == 2
Seg1Index == 0
Seg2Index == 1

\* ------------------------------------------------------ pure helpers
\* the segment labels, in the order sorted() gives strings
SegNames == <<"A", "B", "C", "D", "E", "F", "G", "H">>
SegRank(s) == CHOOSE i \in 1..Len(SegNames) : SegNames[i] = s

RECURSIVE SumSeq(_)
SumSeq(s) == IF s = <<>> THEN 0 ELSE Head(s) + SumSeq(Tail(s))

Min(S) == CHOOSE x \in S : \A y \in S : x <= y

RECURSIVE Sorted(_)
Sorted(S) == IF S = {} THEN <<>> ELSE <<Min(S)>> \o Sorted(S \ {Min(S)})

Range(s) == { s[i] : i \in 1..Len(s) }

SortedSegs(S) ==
    LET r == Sorted({ SegRank(x) : x \in S })
    IN  [i \in 1..Len(r) |-> SegNames[r[i]]]

\* ------------------------------------------------------------- inputs
Segs == {"A", "B"}
Days == {0, 1}
Times == {0, 1}
DateCells == [day : Days, time : Times]
Profiles ==
    << [FlightNumber |-> 101, Adults |-> 1, Infants |-> 0, TotalBooked |-> 1,
        NoShows |-> 0, FlownLoad |-> 1, BookedLoad |-> 1],
       [FlightNumber |-> 202, Adults |-> 2, Infants |-> 1, TotalBooked |-> 3,
        NoShows |-> 1, FlownLoad |-> 2, BookedLoad |-> 3] >>
FileRow(c, s, p) ==
    [DepartureDate |-> c, Segment |-> s, FlightNumber |-> p.FlightNumber,
     Adults |-> p.Adults, Infants |-> p.Infants, TotalBooked |-> p.TotalBooked,
     NoShows |-> p.NoShows, FlownLoad |-> p.FlownLoad, BookedLoad |-> p.BookedLoad]

\* the files of at most MaxRows rows: any date cell and segment in each row, the
\* numeric cells of row i taken from Profiles in turn
TablesOver(cells, n) ==
    { [i \in 1..n |-> FileRow(f[i][1], f[i][2], Profiles[((i - 1) % Len(Profiles)) + 1])] :
        f \in [1..n -> cells \X Segs] }
Tables == UNION { TablesOver(DateCells, n) : n \in 0..MaxRows }

\* the same without a time of day: the tables of the specification that
\* remembers a run, which has many more states per table
NavTables == UNION { TablesOver({ c \in DateCells : c.time = 0 }, n) : n \in 0..MaxRows }

\* the files for the statistics page: for every key k at most one row of weight
\* k (segment k, day k) and one more row of weight 1 (segment k, the next day);
\* rows of the upper half of the keys have one no-show, the others none
StatRow(k, day, w) ==
    FileRow([day |-> day, time |-> 0], SegNames[k],
            [FlightNumber |-> 100 + k, Adults |-> w, Infants |-> 0, TotalBooked |-> w,
             NoShows |-> IF 2 * k > NumStatKeys THEN 1 ELSE 0,
             FlownLoad |-> w, BookedLoad |-> w])
StatTable(c) ==
    LET mains == Sorted({ k \in DOMAIN c : c[k] >= 1 })
        extras == Sorted({ k \in DOMAIN c : c[k] = 2 })
    IN  [i \in 1..Len(mains) |-> StatRow(mains[i], mains[i], mains[i])]
        \o [i \in 1..Len(extras) |-> StatRow(extras[i], (extras[i] % NumStatKeys) + 1, 1)]
StatTables == { StatTable(c) : c \in [1..NumStatKeys -> 0..2] }

Pages == <<"By Date", "By Segment", "Advanced Statistics", "Compare Segments">>

\* pd.to_datetime on one cell of the 'Departure Date' column
ToDatetime(c) == c.day * TicksPerDay + c.time

\* Series.dt.date on one timestamp
DtDate(ts) == ts \div TicksPerDay

\* pd.read_csv followed by the date conversion: the parsed table
ParseTable(t) ==
    [i \in 1..Len(t) |->
        [idx |-> i - 1, DepartureDate |-> ToDatetime(t[i].DepartureDate),
         Segment |-> t[i].Segment, FlightNumber |-> t[i].FlightNumber,
         Adults |-> t[i].Adults, Infants |-> t[i].Infants,
         TotalBooked |-> t[i].TotalBooked, NoShows |-> t[i].NoShows,
         FlownLoad |-> t[i].FlownLoad, BookedLoad |-> t[i].BookedLoad]]

Columns ==
    {"idx", "DepartureDate", "Segment", "FlightNumber", "Adults", "Infants",
     "TotalBooked", "NoShows", "FlownLoad", "BookedLoad"}

\* ------------------------------------------------------ pandas queries
\* Series.unique(): the distinct values in order of first appearance
RECURSIVE Unique(_)
Unique(s) ==
    IF s = <<>> THEN <<>>
    ELSE LET r == Unique(SubSeq(s, 1, Len(s) - 1))
         IN  IF s[Len(s)] \in Range(r) THEN r ELSE Append(r, s[Len(s)])

DateCol(rows) == [i \in 1..Len(rows) |-> DtDate(rows[i].DepartureDate)]
SegmentCol(rows) == [i \in 1..Len(rows) |-> rows[i].Segment]

\* faulty variant: the timestamp itself is compared with the selected date
FilterByTimestamp(rows, d) ==
    SelectSeq(rows, LAMBDA r : d # <<>> /\ r.DepartureDate = d[1])

\* df[df['Departure Date'].dt.date == selected_date]; d is <<>> (None) or <<date>>
FilterByDate(rows, d) ==
    SelectSeq(rows, LAMBDA r : d # <<>> /\ DtDate(r.DepartureDate) = d[1])

\* df[df['Segment'] == selected_segment]; s is <<>> (None) or <<segment>>
FilterBySegment(rows, s) ==
    SelectSeq(rows, LAMBDA r : s # <<>> /\ r.Segment = s[1])

\* frame[[cols]].sum(): one row of totals
SumColumns(rows) ==
    [Adults |-> SumSeq([i \in 1..Len(rows) |-> rows[i].Adults]),
     Infants |-> SumSeq([i \in 1..Len(rows) |-> rows[i].Infants]),
     TotalBooked |-> SumSeq([i \in 1..Len(rows) |-> rows[i].TotalBooked]),
     NoShows |-> SumSeq([i \in 1..Len(rows) |-> rows[i].NoShows]),
     FlownLoad |-> SumSeq([i \in 1..Len(rows) |-> rows[i].FlownLoad])]

\* groupby('Departure Date'): one group per distinct value of the column (a
\* timestamp), in ascending order; each group's rows summed column by column
GroupByDepartureDate(rows) ==
    LET keys == Sorted({ rows[i].DepartureDate : i \in 1..Len(rows) })
    IN  [k \in 1..Len(keys) |->
            [key |-> keys[k],
             sum |-> SumColumns(SelectSeq(rows, LAMBDA r : r.DepartureDate = keys[k]))]]

\* groupby('Segment'): one group per distinct segment, in ascending order
GroupBySegment(rows) ==
    LET keys == SortedSegs({ rows[i].Segment : i \in 1..Len(rows) })
    IN  [k \in 1..Len(keys) |->
            [key |-> keys[k],
             n   |-> Len(SelectSeq(rows, LAMBDA r : r.Segment = keys[k])),
             sum |-> SumColumns(SelectSeq(rows, LAMBDA r : r.Segment = keys[k]))]]

\* faulty variant: the sort is ascending
RECURSIVE SortValuesAscending(_)
SortValuesAscending(S) ==
    IF S = {} THEN {<<>>}
    ELSE UNION { { <<e>> \o r : r \in SortValuesAscending(S \ {e}) } :
                 e \in { x \in S : \A y \in S : x.val <= y.val } }

\* Series.sort_values(ascending = False): every order of the entries in which
\* the values do not increase (the default sort kind is not stable)
RECURSIVE SortValuesDescending(_)
SortValuesDescending(S) ==
    IF S = {} THEN {<<>>}
    ELSE UNION { { <<e>> \o r : r \in SortValuesDescending(S \ {e}) } :
                 e \in { x \in S : \A y \in S : y.val <= x.val } }

\* Series.head(n)
HeadN(s, n) == SubSeq(s, 1, IF Len(s) < n THEN Len(s) ELSE n)

\* one column of a group-by result as a series of (key, val) entries
NoShowsSeries(groups) ==
    [k \in 1..Len(groups) |-> [key |-> groups[k].key, val |-> groups[k].sum.NoShows]]
FlownLoadSeries(groups) ==
    [k \in 1..Len(groups) |-> [key |-> groups[k].key, val |-> groups[k].sum.FlownLoad]]
TotalBookedSeries(groups) ==
    [k \in 1..Len(groups) |-> [key |-> groups[k].key, val |-> groups[k].sum.TotalBooked]]

\* filtered_df.groupby('Departure Date')[['Adults', 'Infants', 'Total Booked']].sum()
DailyTotals(rows) ==
    LET g == GroupByDepartureDate(rows)
    IN  [k \in 1..Len(g) |->
            [key |-> g[k].key, Adults |-> g[k].sum.Adults,
             Infants |-> g[k].sum.Infants, TotalBooked |-> g[k].sum.TotalBooked]]

\* dfN.groupby('Departure Date')[['Adults', 'Infants']].sum() with the derived
\* column Total = Adults + Infants
DailyPassengers(rows) ==
    LET g == GroupByDepartureDate(rows)
    IN  [k \in 1..Len(g) |->
            [key |-> g[k].key, Adults |-> g[k].sum.Adults,
             Infants |-> g[k].sum.Infants,
             Total |-> g[k].sum.Adults + g[k].sum.Infants]]

\* df.groupby('Segment')[['Adults', 'Infants']].mean() with Total = the sum of
\* the two means; a mean is kept exact as <<sum, count>>
AveragePassengers(rows) ==
    LET g == GroupBySegment(rows)
    IN  [k \in 1..Len(g) |->
            [key |-> g[k].key, Adults |-> <<g[k].sum.Adults, g[k].n>>,
             Infants |-> <<g[k].sum.Infants, g[k].n>>,
             Total |-> <<g[k].sum.Adults + g[k].sum.Infants, g[k].n>>]]

\* the value of series s at key k, or <<>> (NaN) when k is not in its index
At(s, k) ==
    LET hit == SelectSeq(s, LAMBDA e : e.key = k)
    IN  IF hit = <<>> THEN <<>> ELSE <<hit[1].val>>

\* value.fillna(0)
FillNa0(v) == IF v = <<>> THEN 0 ELSE v[1]

\* pd.DataFrame({seg1: no_shows1, seg2: no_shows2}).fillna(0): the two series
\* aligned on the sorted union of their indexes
CompareFrame(s1, s2) ==
    LET keys == Sorted({ s1[i].key : i \in 1..Len(s1) } \cup { s2[i].key : i \in 1..Len(s2) })
    IN  [k \in 1..Len(keys) |->
            [key |-> keys[k], first |-> FillNa0(At(s1, keys[k])),
             second |-> FillNa0(At(s2, keys[k]))]]

\* df['No Shows'].mean() + 2 * df['No Shows'].std(), kept exact: n values of
\* sum s and v = n * (sum of squares) - s * s, so that mean = s / n and the
\* sample variance (ddof = 1) is v / (n * (n - 1)).  With fewer than two rows
\* the standard deviation, and with it the threshold, is NaN.
OutlierThreshold(rows) ==
    LET n == Len(rows)
        s == SumSeq([i \in 1..n |-> rows[i].NoShows])
        q == SumSeq([i \in 1..n |-> rows[i].NoShows * rows[i].NoShows])
    IN  [nan |-> n < 2, n |-> n, s |-> s, v |-> n * q - s * s]

\* faulty variant: the comparison is >=
AboveOrEqual(x, th) ==
    /\ ~th.nan
    /\ th.n * x >= th.s
    /\ (th.n * x - th.s) * (th.n * x - th.s) * (th.n - 1) >= OutlierK * OutlierK * th.n * th.v

\* x > threshold; every comparison with NaN is False
Above(x, th) ==
    /\ ~th.nan
    /\ th.n * x > th.s
    /\ (th.n * x - th.s) * (th.n * x - th.s) * (th.n - 1) > OutlierK * OutlierK * th.n * th.v

\* df[df['No Shows'] > outlier_threshold]
Outliers(rows) == SelectSeq(rows, LAMBDA r : Above(r.NoShows, OutlierThreshold(rows)))

\* st.selectbox(label, options, index): the stored choice of the widget, the
\* option at index when nothing is stored, None (<<>>) when there is no option
SelectboxValue(w, options, index) ==
    IF w # <<>> /\ w[1] \in Range(options) THEN w
    ELSE IF options = <<>> THEN <<>> ELSE <<options[index + 1]>>

\* st.selectbox raises StreamlitAPIException for an index outside the options
SelectboxRaises(options, index) ==
    Len(options) > 0 /\ ~(0 <= index /\ index < Len(options))

\* ------------------------------------------------------------- state
VARIABLES
    disk,        \* the rows of clean_flight_data.csv
    fileState,   \* "ok", "missing" or "malformed" (unreadable / unparsable date)
    cache,       \* st.cache_data's entry for load_data(): <<>> or <<table>>
    df,          \* the script's df in the current run
    pc,          \* "run", "loaded", "done", "failed" (load raised), "error" (page raised)
    page,        \* state of the sidebar radio "Select Page"
    w_date,      \* state of selectbox "Select a Date": <<>> or <<date>>
    w_segment,   \* state of selectbox "Select Segment"
    w_seg1,      \* state of selectbox "Select First Segment"
    w_seg2,      \* state of selectbox "Select Second Segment"
    out,         \* what the current run computed and rendered
    everLoaded,  \* history: the body of load_data has returned a table
    reread,      \* history: the body of load_data ran again after it had returned
    lastCall,    \* history: how the last call of load_data() ended: "none", "body",
                 \* "cached" or "raised"
    sortMemo,    \* the tie orders this build's sort gave: <<>> or <<segments, dates>>
    ref          \* history: <<>> or <<page, selections, out, mark>> of one completed run

vars == <<disk, fileState, cache, df, pc, page, w_date, w_segment, w_seg1, w_seg2,
          out, everLoaded, reread, lastCall, sortMemo, ref>>
widgets == <<page, w_date, w_segment, w_seg1, w_seg2>>
env == <<disk, fileState>>
hist == <<everLoaded, reread, lastCall>>

Blank ==
    [page |-> "", shown |-> <<>>, queries |-> {}, options |-> <<>>, selected |-> <<>>,
     filtered_df |-> <<>>, summary |-> <<>>, no_shows_by_segment |-> <<>>,
     daily_totals |-> <<>>, no_shows_daily |-> <<>>,
     avg_passengers |-> <<>>, top_segments |-> <<>>, top_dates |-> <<>>,
     no_shows_by_date |-> <<>>, outlier_threshold |-> <<>>, outliers |-> <<>>,
     df1 |-> <<>>, df2 |-> <<>>, summary1 |-> <<>>, summary2 |-> <<>>,
     daily1 |-> <<>>, daily2 |-> <<>>, compare_df |-> <<>>,
     scatter1 |-> <<>>, scatter2 |-> <<>>]

Finished == {"done", "failed", "error"}

\* the script starts over: its names are unbound again, nothing is rendered yet
StartRun == pc' = "run" /\ df' = <<>> /\ out' = Blank

\* faulty variant: no memoization, every call runs the body
CacheNever == FALSE

\* @st.cache_data: a call is answered from the cache when an entry exists
CacheHit == cache # <<>>

\* faulty variant: a failed load is swallowed and the script goes on with an empty table
LoadDataSwallowsError ==
    /\ pc = "run"
    /\ IF CacheHit
       THEN /\ df' = cache[1]
            /\ lastCall' = "cached"
            /\ UNCHANGED <<cache, everLoaded, reread>>
       ELSE /\ reread' = (reread \/ everLoaded)
            /\ IF fileState = "ok"
               THEN /\ df' = ParseTable(disk)
                    /\ cache' = <<ParseTable(disk)>>
                    /\ everLoaded' = TRUE
                    /\ lastCall' = "body"
               ELSE /\ df' = <<>>
                    /\ lastCall' = "raised"
                    /\ UNCHANGED <<cache, everLoaded>>
    /\ pc' = "loaded"
    /\ UNCHANGED <<env, widgets, out, sortMemo, ref>>

\* df = load_data()
LoadData ==
    /\ pc = "run"
    /\ IF CacheHit
       THEN /\ df' = cache[1]
            /\ pc' = "loaded"
            /\ lastCall' = "cached"
            /\ UNCHANGED <<cache, everLoaded, reread>>
       ELSE /\ reread' = (reread \/ everLoaded)
            /\ IF fileState = "ok"
               THEN /\ df' = ParseTable(disk)
                    /\ cache' = <<ParseTable(disk)>>
                    /\ everLoaded' = TRUE
                    /\ lastCall' = "body"
                    /\ pc' = "loaded"
               ELSE /\ pc' = "failed"
                    /\ lastCall' = "raised"
                    /\ UNCHANGED <<df, cache, everLoaded>>
    /\ UNCHANGED <<env, widgets, out, sortMemo, ref>>

\* faulty variant: every page but the first also runs the branches after its own
DispatchFallsThrough(p) ==
    IF p = "By Date" THEN {"By Date"}
    ELSE IF p = "By Segment" THEN {"By Segment", "Advanced Statistics", "Compare Segments"}
    ELSE IF p = "Advanced Statistics" THEN {"Advanced Statistics", "Compare Segments"}
    ELSE {"Compare Segments"}

\* the if / elif chain on page: the one branch that runs
Dispatch(p) ==
    IF p = "By Date" THEN {"By Date"}
    ELSE IF p = "By Segment" THEN {"By Segment"}
    ELSE IF p = "Advanced Statistics" THEN {"Advanced Statistics"}
    ELSE IF p = "Compare Segments" THEN {"Compare Segments"}
    ELSE {}

\* history for the comparison of two runs: a completed run may be remembered;
\* the mark is set once a run of another page has completed after it
Remember(o) ==
    \/ ref' = IF Len(ref) = 4 /\ ref[1] # page THEN [ref EXCEPT ![4] = TRUE] ELSE ref
    \/ ref = <<>> /\ ref' = <<page, o.selected, o, FALSE>>

\* Page 1: Filter by Date (lines 28-48)
ByDateOut(d, w) ==
    LET unique_dates == Unique(DateCol(d))
        options == Sorted(Range(unique_dates))
        selected_date == SelectboxValue(w, options, 0)
        filtered_df == FilterByDate(d, selected_date)
    IN  [Blank EXCEPT
            !.page = "By Date",
            !.shown = <<"Select Page", "header", "Select a Date", "filtered_df",
                        "summary", "no_shows_by_segment">>,
            !.queries = {"filtered_df", "summary", "no_shows_by_segment"},
            !.options = <<options>>,
            !.selected = <<selected_date>>,
            !.filtered_df = filtered_df,
            !.summary = <<SumColumns(filtered_df)>>,
            !.no_shows_by_segment = NoShowsSeries(GroupBySegment(filtered_df))]

ByDate ==
    /\ pc = "loaded"
    /\ "By Date" \in Dispatch(page)
    /\ out' = ByDateOut(df, w_date)
    /\ w_date' = out'.selected[1]
    /\ w_segment' = <<>> /\ w_seg1' = <<>> /\ w_seg2' = <<>>
    /\ pc' = "done"
    /\ Remember(out')
    /\ UNCHANGED <<env, cache, df, page, hist, sortMemo>>

\* Page 2: Filter by Segment (lines 51-67)
BySegmentOut(d, w) ==
    LET segments == Unique(SegmentCol(d))
        options == SortedSegs(Range(segments))
        selected_segment == SelectboxValue(w, options, 0)
        filtered_df == FilterBySegment(d, selected_segment)
    IN  [Blank EXCEPT
            !.page = "By Segment",
            !.shown = <<"Select Page", "header", "Select Segment", "filtered_df",
                        "daily_totals", "no_shows_daily">>,
            !.queries = {"filtered_df", "daily_totals", "no_shows_daily"},
            !.options = <<options>>,
            !.selected = <<selected_segment>>,
            !.filtered_df = filtered_df,
            !.daily_totals = DailyTotals(filtered_df),
            !.no_shows_daily = NoShowsSeries(GroupByDepartureDate(filtered_df))]

BySegment ==
    /\ pc = "loaded"
    /\ "By Segment" \in Dispatch(page)
    /\ out' = BySegmentOut(df, w_segment)
    /\ w_segment' = out'.selected[1]
    /\ w_date' = <<>> /\ w_seg1' = <<>> /\ w_seg2' = <<>>
    /\ pc' = "done"
    /\ Remember(out')
    /\ UNCHANGED <<env, cache, df, page, hist, sortMemo>>

\* the orders sort_values can give the two summed series of page 3
SortChoices(d) ==
    { <<so, do>> :
        so \in SortValuesDescending(Range(FlownLoadSeries(GroupBySegment(d)))),
        do \in SortValuesDescending(Range(TotalBookedSeries(GroupByDepartureDate(d)))) }

\* Page 3: Advanced Statistics (lines 70-99); m holds the two sorted series.
\* The correlation matrix (lines 90-93) is rendered but its values are not modelled.
AdvancedStatisticsOut(d, m) ==
    [Blank EXCEPT
        !.page = "Advanced Statistics",
        !.shown = <<"Select Page", "header", "avg_passengers", "top_segments",
                    "top_dates", "no_shows_by_date", "corr", "outliers">>,
        !.queries = {"avg_passengers", "top_segments", "top_dates",
                     "no_shows_by_date", "corr", "outlier_threshold", "outliers"},
        !.avg_passengers = AveragePassengers(d),
        !.top_segments = HeadN(m[1], TopN),
        !.top_dates = HeadN(m[2], TopN),
        !.no_shows_by_date = NoShowsSeries(GroupByDepartureDate(d)),
        !.outlier_threshold = <<OutlierThreshold(d)>>,
        !.outliers = Outliers(d)]

\* faulty variant: the derived column is written into df (df['Total'] = ...)
AdvancedStatisticsInPlace ==
    /\ pc = "loaded"
    /\ "Advanced Statistics" \in Dispatch(page)
    /\ \E m \in (IF sortMemo = <<>> THEN SortChoices(df) ELSE {sortMemo}) :
          /\ sortMemo' = m
          /\ out' = AdvancedStatisticsOut(df, m)
    /\ df' = [i \in 1..Len(df) |->
                [c \in Columns \cup {"Total"} |->
                    IF c = "Total" THEN df[i].Adults + df[i].Infants ELSE df[i][c]]]
    /\ w_date' = <<>> /\ w_segment' = <<>> /\ w_seg1' = <<>> /\ w_seg2' = <<>>
    /\ pc' = "done"
    /\ Remember(out')
    /\ UNCHANGED <<env, cache, page, hist>>

AdvancedStatistics ==
    /\ pc = "loaded"
    /\ "Advanced Statistics" \in Dispatch(page)
    /\ \E m \in (IF sortMemo = <<>> THEN SortChoices(df) ELSE {sortMemo}) :
          /\ sortMemo' = m
          /\ out' = AdvancedStatisticsOut(df, m)
    /\ w_date' = <<>> /\ w_segment' = <<>> /\ w_seg1' = <<>> /\ w_seg2' = <<>>
    /\ pc' = "done"
    /\ Remember(out')
    /\ UNCHANGED <<env, cache, df, page, hist>>

\* faulty variant: the check of the two selections is missing
NeverSame(a, b) == FALSE

\* if seg1 == seg2 (line 109)
SameSegment(a, b) == a = b

ScatterPairs(rows) == [i \in 1..Len(rows) |-> <<rows[i].BookedLoad, rows[i].FlownLoad>>]

\* Page 4: Compare Two Segments (lines 102-159), the second selectbox passed
CompareSegmentsOut(d, w1, w2) ==
    LET segments == SortedSegs(Range(Unique(SegmentCol(d))))
        seg1 == SelectboxValue(w1, segments, Seg1Index)
        seg2 == SelectboxValue(w2, segments, Seg2Index)
        df1 == FilterBySegment(d, seg1)
        df2 == FilterBySegment(d, seg2)
        head == [Blank EXCEPT !.page = "Compare Segments",
                              !.options = <<segments, segments>>,
                              !.selected = <<seg1, seg2>>]
    IN  IF SameSegment(seg1, seg2)
        THEN [head EXCEPT
                !.shown = <<"Select Page", "header", "Select First Segment",
                            "Select Second Segment", "warning">>]
        ELSE [head EXCEPT
                !.shown = <<"Select Page", "header", "Select First Segment",
                            "Select Second Segment", "summary1", "summary2",
                            "passenger_trends", "compare_df", "scatter">>,
                !.queries = {"df1", "df2", "summary1", "summary2", "daily1", "daily2",
                             "no_shows1", "no_shows2", "compare_df", "scatter"},
                !.df1 = df1,
                !.df2 = df2,
                !.summary1 = <<SumColumns(df1)>>,
                !.summary2 = <<SumColumns(df2)>>,
                !.daily1 = DailyPassengers(df1),
                !.daily2 = DailyPassengers(df2),
                !.compare_df = CompareFrame(NoShowsSeries(GroupByDepartureDate(df1)),
                                            NoShowsSeries(GroupByDepartureDate(df2))),
                !.scatter1 = ScatterPairs(df1),
                !.scatter2 = ScatterPairs(df2)]

\* Page 4 when st.selectbox(..., index=1) raises: the run stops at line 107
CompareSegmentsRaised(d, w1) ==
    LET segments == SortedSegs(Range(Unique(SegmentCol(d))))
    IN  [Blank EXCEPT
            !.page = "Compare Segments",
            !.shown = <<"Select Page", "header", "Select First Segment", "exception">>,
            !.options = <<segments>>,
            !.selected = <<SelectboxValue(w1, segments, Seg1Index)>>]

CompareSegments ==
    /\ pc = "loaded"
    /\ "Compare Segments" \in Dispatch(page)
    /\ IF SelectboxRaises(SortedSegs(Range(Unique(SegmentCol(df)))), Seg2Index)
       THEN /\ out' = CompareSegmentsRaised(df, w_seg1)
            /\ w_seg1' = out'.selected[1]
            /\ pc' = "error"
            /\ UNCHANGED <<w_date, w_segment, w_seg2, ref>>
       ELSE /\ out' = CompareSegmentsOut(df, w_seg1, w_seg2)
            /\ w_seg1' = out'.selected[1]
            /\ w_seg2' = out'.selected[2]
            /\ w_date' = <<>> /\ w_segment' = <<>>
            /\ pc' = "done"
            /\ Remember(out')
    /\ UNCHANGED <<env, cache, df, page, hist, sortMemo>>

\* ------------------------------------------------------ user and environment
\* the sidebar radio is on screen once a run has passed line 20
SelectPage ==
    /\ pc \in {"done", "error"}
    /\ \E p \in Range(Pages) : p # page /\ page' = p
    /\ StartRun
    /\ UNCHANGED <<env, cache, w_date, w_segment, w_seg1, w_seg2, hist, sortMemo, ref>>

SelectDate ==
    /\ pc = "done" /\ out.page = "By Date"
    /\ \E x \in Range(out.options[1]) : <<x>> # w_date /\ w_date' = <<x>>
    /\ StartRun
    /\ UNCHANGED <<env, cache, page, w_segment, w_seg1, w_seg2, hist, sortMemo, ref>>

SelectSegment ==
    /\ pc = "done" /\ out.page = "By Segment"
    /\ \E x \in Range(out.options[1]) : <<x>> # w_segment /\ w_segment' = <<x>>
    /\ StartRun
    /\ UNCHANGED <<env, cache, page, w_date, w_seg1, w_seg2, hist, sortMemo, ref>>

SelectFirstSegment ==
    /\ pc \in {"done", "error"} /\ out.page = "Compare Segments"
    /\ \E x \in Range(out.options[1]) : <<x>> # w_seg1 /\ w_seg1' = <<x>>
    /\ StartRun
    /\ UNCHANGED <<env, cache, page, w_date, w_segment, w_seg2, hist, sortMemo, ref>>

SelectSecondSegment ==
    /\ pc = "done" /\ out.page = "Compare Segments"
    /\ \E x \in Range(out.options[2]) : <<x>> # w_seg2 /\ w_seg2' = <<x>>
    /\ StartRun
    /\ UNCHANGED <<env, cache, page, w_date, w_segment, w_seg1, hist, sortMemo, ref>>

\* the app is run again without a change of any widget (Rerun, a page reload)
Rerun ==
    /\ pc \in Finished
    /\ StartRun
    /\ UNCHANGED <<env, cache, widgets, hist, sortMemo, ref>>

\* the data file is removed or damaged, or put back
FileBreaks ==
    /\ fileState = "ok"
    /\ \E x \in {"missing", "malformed"} : fileState' = x
    /\ UNCHANGED <<disk, cache, df, pc, widgets, out, hist, sortMemo, ref>>

FileRestored ==
    /\ fileState # "ok"
    /\ fileState' = "ok"
    /\ UNCHANGED <<disk, cache, df, pc, widgets, out, hist, sortMemo, ref>>

\* ------------------------------------------------------ specifications
Start ==
    /\ cache = <<>> /\ df = <<>> /\ pc = "run" /\ out = Blank
    /\ w_date = <<>> /\ w_segment = <<>> /\ w_seg1 = <<>> /\ w_seg2 = <<>>
    /\ everLoaded = FALSE /\ reread = FALSE /\ lastCall = "none" /\ sortMemo = <<>>

Init ==
    /\ disk \in Tables
    /\ fileState \in {"ok", "missing", "malformed"}
    /\ page = Pages[1]
    /\ ref = <<"off">>
    /\ Start

Next ==
    \/ LoadData
    \/ ByDate
    \/ BySegment
    \/ AdvancedStatistics
    \/ CompareSegments
    \/ SelectPage
    \/ SelectDate
    \/ SelectSegment
    \/ SelectFirstSegment
    \/ SelectSecondSegment
    \/ Rerun
    \/ FileBreaks
    \/ FileRestored

Spec == Init /\ [][Next]_vars

\* the statistics page alone, over the larger tables
InitStats ==
    /\ disk \in StatTables
    /\ fileState = "ok"
    /\ page = Pages[3]
    /\ ref = <<"off">>
    /\ Start

NextStats ==
    \/ LoadData
    \/ AdvancedStatistics
    \/ Rerun

SpecStats == InitStats /\ [][NextStats]_vars

\* the script and the user, with one completed run remembered
InitNav ==
    /\ disk \in NavTables
    /\ fileState = "ok"
    /\ page = Pages[1]
    /\ ref = <<>>
    /\ Start

NextNav ==
    \/ LoadData
    \/ ByDate
    \/ BySegment
    \/ AdvancedStatistics
    \/ CompareSegments
    \/ SelectPage
    \/ SelectDate
    \/ SelectSegment
    \/ SelectFirstSegment
    \/ SelectSecondSegment
    \/ Rerun

SpecNav == InitNav /\ [][NextNav]_vars

\* ------------------------------------------------------------- claims
Bound == {"loaded", "done", "error"}

\* C1: on the Compare Segments page a run in which the first and the second
\* selected segment are equal is rejected before any comparison query: only the
\* warning is shown, and no summary, passenger trend, no-shows comparison or
\* scatter data is computed or rendered.
C1_SameSegmentsRejected ==
    (pc = "done" /\ out.page = "Compare Segments" /\ out.selected[1] = out.selected[2])
    => /\ out.queries = {}
       /\ out.shown = <<"Select Page", "header", "Select First Segment",
                        "Select Second Segment", "warning">>
       /\ [out EXCEPT !.page = "", !.shown = <<>>, !.options = <<>>,
                      !.selected = <<>>] = Blank

\* a run with segment B chosen in both selectors of a table that has A and B
C1_Witness ==
    /\ pc = "done" /\ out.page = "Compare Segments"
    /\ out.selected = << <<"B">>, <<"B">> >>
    /\ out.options[1] = <<"A", "B">>
    /\ "warning" \in Range(out.shown)

\* C2: a failed load_data blocks the run: nothing is rendered in a run whose
\* load raised, and the page selector or a page is only ever rendered in a run
\* in which load_data returned the loaded table.
C2_LoadFailureBlocks ==
    /\ pc = "failed" => (out = Blank /\ df = <<>> /\ lastCall = "raised")
    /\ out.shown # <<>> => (pc \in {"done", "error"} /\ cache # <<>> /\ df = cache[1]
                            /\ lastCall \in {"body", "cached"})

\* a run stopped by a load that raised, the file being unreadable or unparsable
C2_Witness ==
    pc = "failed" /\ fileState \in {"missing", "malformed"} /\ ~everLoaded /\ out = Blank

\* C3: the loaded table is never changed by a run: in every run df holds the
\* rows, columns and values load_data parsed from the file, with no derived
\* column such as 'Total', which exists only in the run's aggregation results.
C3_TableUnchanged ==
    /\ cache # <<>> => cache[1] = ParseTable(disk)
    /\ pc \in Bound =>
          /\ df = ParseTable(disk)
          /\ \A i \in 1..Len(df) : DOMAIN df[i] = Columns

\* a Compare Segments run that derived 'Total', after a statistics run did so too
C3_Witness ==
    /\ pc = "done" /\ out.page = "Compare Segments" /\ sortMemo # <<>>
    /\ Len(df) >= 2 /\ out.daily1 # <<>>
    /\ \A k \in 1..Len(out.daily1) : "Total" \in DOMAIN out.daily1[k]

\* C4: the body of load_data returns a table at most once per process: once it
\* has returned, no later call runs it again (the file is not read again) and
\* every later call returns the cached table.  (A call that raises stores
\* nothing, so the body runs again in the next run.)
C4_LoadedOnce ==
    /\ ~reread
    /\ everLoaded <=> (cache # <<>>)
    /\ pc \in Bound => (cache # <<>> /\ df = cache[1])

\* a later call answered from the cache while the file is gone
C4_Witness ==
    pc = "loaded" /\ lastCall = "cached" /\ page # "By Date" /\ df = ParseTable(disk)

\* the positions of the rows of one calendar date
RowsOn(rows, d) == { i \in 1..Len(rows) : DtDate(rows[i].DepartureDate) = d }

\* C5: on the By Date page the filtered table holds exactly the rows of df whose
\* calendar date is the selected one, in df's order, and the filtered tables of
\* the dates the selector offers are disjoint and cover every row of df once.
C5_FilterByDateExact ==
    (pc = "done" /\ out.page = "By Date") =>
       LET offered == Range(out.options[1])
           sel == out.selected[1]
           f == out.filtered_df
       IN  /\ offered = { DtDate(df[i].DepartureDate) : i \in 1..Len(df) }
           /\ sel # <<>> =>
                 /\ sel[1] \in offered
                 /\ Len(f) = Cardinality(RowsOn(df, sel[1]))
                 /\ \A j \in 1..Len(f) : f[j] = df[f[j].idx + 1] /\ f[j].idx + 1 \in RowsOn(df, sel[1])
                 /\ \A j \in 1..Len(f) : \A k \in 1..Len(f) : j < k => f[j].idx < f[k].idx
           /\ sel = <<>> => (df = <<>> /\ f = <<>>)
           /\ \A i \in 1..Len(df) :
                 Cardinality({ d \in offered :
                     \E j \in 1..Len(FilterByDate(df, <<d>>)) :
                         FilterByDate(df, <<d>>)[j].idx = df[i].idx }) = 1
           /\ SumSeq([k \in 1..Len(out.options[1]) |->
                         Len(FilterByDate(df, <<out.options[1][k]>>))]) = Len(df)

\* the second date chosen: a flight later in that day is kept, the flight of
\* the other date is left out
C5_Witness ==
    /\ pc = "done" /\ out.page = "By Date"
    /\ Len(df) >= 2 /\ Len(out.filtered_df) = 1 /\ Len(out.options[1]) >= 2
    /\ out.selected[1] = <<out.options[1][2]>>
    /\ out.filtered_df[1].DepartureDate # out.selected[1][1] * TicksPerDay

\* the rows of a segment, and a column of them summed over one calendar date
RowsOfSegment(rows, s) == SelectSeq(rows, LAMBDA r : s # <<>> /\ r.Segment = s[1])
DatesOf(rows) == { DtDate(rows[i].DepartureDate) : i \in 1..Len(rows) }
AdultsOn(rows, d) ==
    SumSeq([i \in 1..Len(rows) |->
              IF DtDate(rows[i].DepartureDate) = d THEN rows[i].Adults ELSE 0])
InfantsOn(rows, d) ==
    SumSeq([i \in 1..Len(rows) |->
              IF DtDate(rows[i].DepartureDate) = d THEN rows[i].Infants ELSE 0])
TotalBookedOn(rows, d) ==
    SumSeq([i \in 1..Len(rows) |->
              IF DtDate(rows[i].DepartureDate) = d THEN rows[i].TotalBooked ELSE 0])
NoShowsOn(rows, d) ==
    SumSeq([i \in 1..Len(rows) |->
              IF DtDate(rows[i].DepartureDate) = d THEN rows[i].NoShows ELSE 0])

\* C6: with two different segments the no-shows comparison has exactly one
\* entry per calendar date in the union of the two segments' dates, holding for
\* each segment the sum of its no-shows on that date, 0 when it has no row then.
C6_UnionOfDates ==
    (pc = "done" /\ out.page = "Compare Segments" /\ "compare_df" \in out.queries) =>
       LET a == RowsOfSegment(df, out.selected[1])
           b == RowsOfSegment(df, out.selected[2])
           dates == DatesOf(a) \cup DatesOf(b)
           c == out.compare_df
       IN  /\ Len(c) = Cardinality(dates)
           /\ \A d \in dates :
                 \E k \in 1..Len(c) :
                     /\ DtDate(c[k].key) = d
                     /\ c[k].first = NoShowsOn(a, d)
                     /\ c[k].second = NoShowsOn(b, d)

\* a series with exactly one entry per calendar date of the rows, holding the
\* sums of the rows of that date
DailyTotalsPerDate(series, rows) ==
    /\ Len(series) = Cardinality(DatesOf(rows))
    /\ \A d \in DatesOf(rows) :
          \E k \in 1..Len(series) :
              /\ DtDate(series[k].key) = d
              /\ series[k].Adults = AdultsOn(rows, d)
              /\ series[k].Infants = InfantsOn(rows, d)

\* C9: the daily totals of a selected segment (By Segment and Compare Segments)
\* have exactly one entry per distinct calendar date of the segment's rows,
\* holding the sums of 'Adults', 'Infants' (and 'Total Booked') of that date.
C9_OneEntryPerDate ==
    /\ (pc = "done" /\ out.page = "By Segment") =>
          /\ DailyTotalsPerDate(out.daily_totals, RowsOfSegment(df, out.selected[1]))
          /\ \A k \in 1..Len(out.daily_totals) :
                out.daily_totals[k].TotalBooked =
                    TotalBookedOn(RowsOfSegment(df, out.selected[1]),
                                  DtDate(out.daily_totals[k].key))
    /\ (pc = "done" /\ out.page = "Compare Segments" /\ "daily1" \in out.queries) =>
          /\ DailyTotalsPerDate(out.daily1, RowsOfSegment(df, out.selected[1]))
          /\ DailyTotalsPerDate(out.daily2, RowsOfSegment(df, out.selected[2]))

\* the sums a top-5 query ranks, computed row by row
FlownLoadOf(rows, s) ==
    SumSeq([i \in 1..Len(rows) |-> IF rows[i].Segment = s THEN rows[i].FlownLoad ELSE 0])
TotalBookedAt(rows, t) ==
    SumSeq([i \in 1..Len(rows) |-> IF rows[i].DepartureDate = t THEN rows[i].TotalBooked ELSE 0])
SegmentsOf(rows) == { rows[i].Segment : i \in 1..Len(rows) }
TimestampsOf(rows) == { rows[i].DepartureDate : i \in 1..Len(rows) }

\* a ranked list of min(5, groups) distinct groups with their sums, no group
\* left out having a larger sum than one that is listed
TopRanked(top, keys, Sum(_)) ==
    /\ Len(top) = IF Cardinality(keys) < TopN THEN Cardinality(keys) ELSE TopN
    /\ \A i \in 1..Len(top) : top[i].key \in keys /\ top[i].val = Sum(top[i].key)
    /\ \A i \in 1..Len(top) : \A j \in 1..Len(top) : i < j => top[i].key # top[j].key
    /\ \A k \in keys :
          (\A i \in 1..Len(top) : top[i].key # k) =>
              \A i \in 1..Len(top) : Sum(k) <= top[i].val
StrictlyDescending(top) ==
    \A i \in 1..Len(top) : \A j \in 1..Len(top) : i < j => top[i].val > top[j].val
Descending(top) ==
    \A i \in 1..Len(top) : \A j \in 1..Len(top) : i < j => top[i].val >= top[j].val

NoShowsSum(rows) == SumSeq([i \in 1..Len(rows) |-> rows[i].NoShows])
NoShowsSquares(rows) == SumSeq([i \in 1..Len(rows) |-> rows[i].NoShows * rows[i].NoShows])
IsOutlier(rows, x) ==
    LET n == Len(rows)
        s == NoShowsSum(rows)
        q == NoShowsSquares(rows)
    IN  /\ n >= 2
        /\ n * x - s > 0
        /\ (n * x - s) * (n * x - s) * (n - 1) > 4 * n * (n * q - s * s)
AllNoShowsEqual(rows, c) == \A i \in 1..Len(rows) : rows[i].NoShows = c
\* the threshold is the number c: the mean is c and the standard deviation is 0
ThresholdIs(th, c) == ~th.nan /\ th.s = th.n * c /\ th.v = 0

\* C8 as stated: the outliers are exactly the rows above mean + 2 * stddev, and
\* in every table whose 'No Shows' are all equal the threshold is that value
\* and no row is reported.
C8_OutliersAnyTable ==
    (pc = "done" /\ out.page = "Advanced Statistics") =>
       /\ out.outliers = SelectSeq(df, LAMBDA r : IsOutlier(df, r.NoShows))
       /\ (Len(df) >= 1 /\ AllNoShowsEqual(df, df[1].NoShows)) =>
             (ThresholdIs(out.outlier_threshold[1], df[1].NoShows) /\ out.outliers = <<>>)

\* C8 as amended: the same for tables of at least two rows; with fewer than two
\* rows the sample standard deviation and the threshold are NaN, and no row is
\* reported.
C8_Outliers ==
    (pc = "done" /\ out.page = "Advanced Statistics") =>
       /\ out.outliers = SelectSeq(df, LAMBDA r : IsOutlier(df, r.NoShows))
       /\ (Len(df) >= 2 /\ AllNoShowsEqual(df, df[1].NoShows)) =>
             (ThresholdIs(out.outlier_threshold[1], df[1].NoShows) /\ out.outliers = <<>>)
       /\ Len(df) < 2 => (out.outlier_threshold[1].nan /\ out.outliers = <<>>)

\* three or more rows, one no-show each: the threshold is 1 and nothing is reported
C8_Witness ==
    /\ pc = "done" /\ out.page = "Advanced Statistics"
    /\ Len(df) >= 3 /\ AllNoShowsEqual(df, 1)
    /\ ThresholdIs(out.outlier_threshold[1], 1) /\ out.outliers = <<>>

\* a table in which the query reports a row
OutlierReported ==
    pc = "done" /\ out.page = "Advanced Statistics" /\ out.outliers # <<>>

\* only the results of page o.page are set in o
OnlyPageFields(o) ==
    LET common == [o EXCEPT !.page = "", !.shown = <<>>, !.queries = {},
                            !.options = <<>>, !.selected = <<>>]
    IN  CASE o.page = "By Date" ->
                [common EXCEPT !.filtered_df = <<>>, !.summary = <<>>,
                               !.no_shows_by_segment = <<>>] = Blank
          [] o.page = "By Segment" ->
                [common EXCEPT !.filtered_df = <<>>, !.daily_totals = <<>>,
                               !.no_shows_daily = <<>>] = Blank
          [] o.page = "Advanced Statistics" ->
                [common EXCEPT !.avg_passengers = <<>>, !.top_segments = <<>>,
                               !.top_dates = <<>>, !.no_shows_by_date = <<>>,
                               !.outlier_threshold = <<>>, !.outliers = <<>>] = Blank
          [] o.page = "Compare Segments" ->
                [common EXCEPT !.df1 = <<>>, !.df2 = <<>>, !.summary1 = <<>>,
                               !.summary2 = <<>>, !.daily1 = <<>>, !.daily2 = <<>>,
                               !.compare_df = <<>>, !.scatter1 = <<>>,
                               !.scatter2 = <<>>] = Blank
          [] OTHER -> FALSE

\* C10: a run that reaches its page runs the selected page and no other, and
\* what a completed run computed is what an earlier run of that page with the
\* same selections computed, whatever pages were visited in between.
C10_OnePageNoHistory ==
    /\ pc \in {"done", "error"} => (out.page = page /\ OnlyPageFields(out))
    /\ (pc = "done" /\ Len(ref) = 4 /\ ref[1] = page /\ ref[2] = out.selected)
          => out = ref[3]

\* back on a page with the selections of a remembered run, after another page ran
C10_Witness ==
    /\ pc = "done" /\ Len(ref) = 4 /\ ref[4]
    /\ ref[1] = page /\ ref[2] = out.selected /\ out.page = page
    /\ out.queries # {}

====
